---------------------------- MODULE Spec2Model ----------------------------
(***************************************************************************)
(* A model of cargo_avto_update.Process (src/cargo_avto_uppdate.go): one   *)
(* batch run that resolves the FBS tariffs, recreates the products table,  *)
(* walks the card catalog page by page, looks up prices and commissions,   *)
(* and then prices and upserts every card.                                 *)
(*                                                                         *)
(* Conventions.                                                            *)
(*  - A Go string that the code takes apart (vendor codes, scraped price   *)
(*    texts, JSON string values) is a sequence of one-character strings.   *)
(*  - A float64 is an exact rational <<n, d>> with d > 0 in lowest terms.  *)
(*    The rounding of the binary representation is modelled where it       *)
(*    decides a branch: the sign of CalcPrice's denominator.               *)
(*  - The database executes every statement it is given: a failing         *)
(*    db.Exec in saveToDatabase, which the code only logs, is not drawn.   *)
(*  - The warehouse label "Маркетплейс" is written "Marketplace".         *)
(***************************************************************************)
EXTENDS Integers, Sequences, FiniteSets, TLC

(***************************************************************************)
(* Bounds of the model.                                                    *)
(***************************************************************************)
\* The catalog walk receives at most this many cards in total.
MaxCards == 2

\* The stub source of SpecWalk starts with a page of at most this many cards.
MaxStubCards == 3

(***************************************************************************)
(* float64 as exact rationals.                                             *)
(***************************************************************************)
Abs(i) == IF i < 0 THEN -i ELSE i

RECURSIVE GCD(_, _)
GCD(a, b) == IF b = 0 THEN a ELSE GCD(b, a % b)

Rat(n, d) ==
    LET s == IF d < 0 THEN -1 ELSE 1
        g == GCD(Abs(n), Abs(d))
    IN  <<(s * n) \div g, (s * d) \div g>>

RInt(i) == <<i, 1>>
RAdd(a, b) == Rat(a[1] * b[2] + b[1] * a[2], a[2] * b[2])
RSub(a, b) == Rat(a[1] * b[2] - b[1] * a[2], a[2] * b[2])
RMul(a, b) == Rat(a[1] * b[1], a[2] * b[2])
RDiv(a, b) == Rat(a[1] * b[2], a[2] * b[1])
RLt(a, b)  == a[1] * b[2] < b[1] * a[2]
RLeq(a, b) == a[1] * b[2] <= b[1] * a[2]

\* math.Ceil, math.Round (half away from zero) and the float64 -> int
\* conversion (truncation toward zero) on finite values.
Floor(a) == a[1] \div a[2]
Ceil(a)  == -((-a[1]) \div a[2])
Trunc(a) == IF a[1] < 0 THEN Ceil(a) ELSE Floor(a)
Round(a) ==
    IF a[1] < 0 THEN -((2 * (-a[1]) + a[2]) \div (2 * a[2]))
                ELSE (2 * a[1] + a[2]) \div (2 * a[2])

(***************************************************************************)
(* Strings as character sequences: strings.Split, strings.ReplaceAll,      *)
(* strconv.Atoi and strconv.ParseFloat on the decimal forms.               *)
(***************************************************************************)
Digits == {"0", "1", "2", "3", "4", "5", "6", "7", "8", "9"}

DigitVal(c) ==
    CASE c = "0" -> 0 [] c = "1" -> 1 [] c = "2" -> 2 [] c = "3" -> 3
      [] c = "4" -> 4 [] c = "5" -> 5 [] c = "6" -> 6 [] c = "7" -> 7
      [] c = "8" -> 8 [] c = "9" -> 9

AllDigits(s) == \A i \in 1..Len(s) : s[i] \in Digits

RECURSIVE DecValue(_)
DecValue(s) ==
    IF s = <<>> THEN 0
    ELSE 10 * DecValue(SubSeq(s, 1, Len(s) - 1)) + DigitVal(s[Len(s)])

RECURSIVE Pow10(_)
Pow10(k) == IF k = 0 THEN 1 ELSE 10 * Pow10(k - 1)

\* strings.Split(s, sep) for a one-character separator: the pieces between
\* the separators, one piece (possibly empty) more than there are separators.
RECURSIVE SplitFrom(_, _, _)
SplitFrom(s, sep, cur) ==
    IF s = <<>> THEN <<cur>>
    ELSE IF Head(s) = sep THEN <<cur>> \o SplitFrom(Tail(s), sep, <<>>)
    ELSE SplitFrom(Tail(s), sep, Append(cur, Head(s)))

Split(s, sep) == SplitFrom(s, sep, <<>>)

\* strings.ReplaceAll(s, old, new) for one-character old and new.
ReplaceAll(s, old, new) == [i \in 1..Len(s) |-> IF s[i] = old THEN new ELSE s[i]]

StripSign(s) ==
    IF s # <<>> /\ Head(s) \in {"+", "-"} THEN Tail(s) ELSE s

SignOf(s) == IF s # <<>> /\ Head(s) = "-" THEN -1 ELSE 1

\* strconv.Atoi: an optional sign and at least one decimal digit.
Atoi(s) ==
    LET body == StripSign(s)
    IN  IF body # <<>> /\ AllDigits(body)
        THEN [ok |-> TRUE, val |-> SignOf(s) * DecValue(body)]
        ELSE [ok |-> FALSE, val |-> 0]

\* strconv.ParseFloat(s, 64) on decimal notation: an optional sign, digits
\* with at most one point, at least one digit in all.
ParseFloat(s) ==
    LET body  == StripSign(s)
        parts == Split(body, ".")
        ip    == parts[1]
        fp    == IF Len(parts) = 2 THEN parts[2] ELSE <<>>
    IN  IF /\ Len(parts) <= 2
           /\ AllDigits(ip) /\ AllDigits(fp)
           /\ Len(ip) + Len(fp) > 0
        THEN [ok |-> TRUE,
              val |-> Rat(SignOf(s) * (DecValue(ip) * Pow10(Len(fp)) + DecValue(fp)),
                          Pow10(Len(fp)))]
        ELSE [ok |-> FALSE, val |-> RInt(0)]


DigitChar(d) ==
    CASE d = 0 -> "0" [] d = 1 -> "1" [] d = 2 -> "2" [] d = 3 -> "3"
      [] d = 4 -> "4" [] d = 5 -> "5" [] d = 6 -> "6" [] d = 7 -> "7"
      [] d = 8 -> "8" [] d = 9 -> "9"

RECURSIVE NatChars(_)
NatChars(n) ==
    IF n < 10 THEN <<DigitChar(n)>>
    ELSE Append(NatChars(n \div 10), DigitChar(n % 10))

\* fmt.Sprintf("%d", i)
Itoa(i) == IF i < 0 THEN <<"-">> \o NatChars(-i) ELSE NatChars(i)

\* Removal of every occurrence of a one-character substring
\* (strings.ReplaceAll(s, c, "")).
RemoveAll(s, c) == SelectSeq(s, LAMBDA x : x # c)

RECURSIVE TrimLeft(_)
TrimLeft(s) == IF s # <<>> /\ Head(s) = " " THEN TrimLeft(Tail(s)) ELSE s

RECURSIVE TrimRight(_)
TrimRight(s) ==
    IF s # <<>> /\ s[Len(s)] = " " THEN TrimRight(SubSeq(s, 1, Len(s) - 1)) ELSE s

TrimSpace(s) == TrimRight(TrimLeft(s))

\* A Go map as a function; m[k] = v of the code.
EmptyMap == <<>>
MapPut(m, k, v) == [x \in (DOMAIN m) \cup {k} |-> IF x = k THEN v ELSE m[x]]

(***************************************************************************)
(* binary64 subtraction.  The one float64 comparison whose outcome the     *)
(* rounding of the binary representation can change is CalcPrice's test    *)
(* of its denominator against zero: the exact value of                     *)
(* (1 - taxRate - commissionRate) - desiredMargin may be zero where the    *)
(* float64 value is a rounding residue of either sign.  For that test the  *)
(* operands are taken as the nearest binary64 values and subtracted with   *)
(* IEEE 754 round-to-nearest-even.  A magnitude below 4 is a fixed-point   *)
(* number with 64 fraction bits, written as five limbs of 16 bits, most    *)
(* significant first: the integer part, then the fraction.                 *)
(***************************************************************************)
LimbBase == 256 * 256
Limbs == 1 + 4
ZeroLimbs == <<0, 0, 0, 0, 0>>

RECURSIVE Pow2(_)
Pow2(k) == IF k = 0 THEN 1 ELSE 2 * Pow2(k - 1)

\* Long division of rem/d: the next k limbs, then 1 if a remainder is left.
RECURSIVE DivLimbs(_, _, _)
DivLimbs(rem, d, k) ==
    IF k = 0 THEN << IF rem # 0 THEN 1 ELSE 0 >>
    ELSE <<(rem * LimbBase) \div d>> \o DivLimbs((rem * LimbBase) % d, d, k - 1)

\* a + b and a - b (for a >= b) on magnitudes, limb by limb from the least
\* significant one.
RECURSIVE AddLimbs(_, _, _, _)
AddLimbs(a, b, i, carry) ==
    IF i = 0 THEN <<>>
    ELSE Append(AddLimbs(a, b, i - 1, (a[i] + b[i] + carry) \div LimbBase),
                (a[i] + b[i] + carry) % LimbBase)

RECURSIVE SubLimbs(_, _, _, _)
SubLimbs(a, b, i, borrow) ==
    IF i = 0 THEN <<>>
    ELSE Append(SubLimbs(a, b, i - 1, IF a[i] - b[i] - borrow < 0 THEN 1 ELSE 0),
                (a[i] - b[i] - borrow) % LimbBase)

MagLess(a, b) ==
    \E i \in 1..Limbs :
        /\ a[i] < b[i]
        /\ \A j \in 1..(i - 1) : a[j] = b[j]

\* The position of the leading 1 of a magnitude, counted from the least
\* significant bit (position 0); -1 for zero.
LeadingBit(mag) ==
    IF mag = ZeroLimbs THEN -1
    ELSE LET j == CHOOSE i \in 1..Limbs :
                      mag[i] # 0 /\ \A h \in 1..(i - 1) : mag[h] = 0
             b == CHOOSE e \in 0..15 : Pow2(e) <= mag[j] /\ mag[j] < Pow2(e + 1)
         IN  16 * (Limbs - j) + b

\* Rounding of a magnitude to 53 significant bits, ties to even; sticky says
\* that nonzero bits follow those of the magnitude.  The bits dropped lie in
\* the last limb.
RoundToF64(mag, sticky) ==
    LET q == LeadingBit(mag) - 52
    IN  IF q <= 0 THEN mag
        ELSE LET low == mag[Limbs] % Pow2(q)
                 half == Pow2(q - 1)
                 odd == (mag[Limbs] \div Pow2(q)) % 2 = 1
                 up == low > half \/ (low = half /\ (sticky \/ odd))
                 kept == [mag EXCEPT ![Limbs] = @ - low]
             IN  IF up THEN AddLimbs(kept, <<0, 0, 0, 0, Pow2(q)>>, Limbs, 0)
                 ELSE kept

\* The binary64 value nearest to the rational r, for 1/1024 <= |r| < 2 or r = 0.
NearestF64(r) ==
    LET n == Abs(r[1])
        all == <<n \div r[2]>> \o DivLimbs(n % r[2], r[2], Limbs - 1)
    IN  [neg |-> r[1] < 0,
         mag |-> RoundToF64(SubSeq(all, 1, Limbs), all[Limbs + 1] = 1)]

\* x - y in binary64.
F64Sub(x, y) ==
    IF x.neg # y.neg
    THEN [neg |-> x.neg, mag |-> RoundToF64(AddLimbs(x.mag, y.mag, Limbs, 0), FALSE)]
    ELSE IF MagLess(x.mag, y.mag)
    THEN [neg |-> ~x.neg, mag |-> RoundToF64(SubLimbs(y.mag, x.mag, Limbs, 0), FALSE)]
    ELSE [neg |-> x.neg, mag |-> RoundToF64(SubLimbs(x.mag, y.mag, Limbs, 0), FALSE)]

\* -1, 0 or 1.
F64Sign(x) == IF x.mag = ZeroLimbs THEN 0 ELSE IF x.neg THEN -1 ELSE 1

\* The float64 value of (1 - taxRate - commissionRate) - desiredMargin.
F64Denominator(desiredMargin, taxRate, commissionRate) ==
    F64Sub(F64Sub(F64Sub(NearestF64(RInt(1)), NearestF64(taxRate)),
                  NearestF64(commissionRate)),
           NearestF64(desiredMargin))

\* The sign of that value.  The three conversions and three subtractions are
\* each off by less than 2^-53, and the rates of the model are fractions whose
\* denominators multiply to less than 2^40: an exact value that is not zero
\* is too far from zero for the rounding to change its sign, so the binary64
\* computation decides only where the exact value is zero.
DenominatorSign(desiredMargin, taxRate, commissionRate) ==
    LET exact == RSub(RSub(RSub(RInt(1), taxRate), commissionRate), desiredMargin)
    IN  IF exact[1] > 0 THEN 1
        ELSE IF exact[1] < 0 THEN -1
        ELSE F64Sign(F64Denominator(desiredMargin, taxRate, commissionRate))

(***************************************************************************)
(* The pricing model.                                                      *)
(***************************************************************************)
CalculateVolumeLiters(width, height, length) ==
    LET volumeCm3 == RMul(RMul(RInt(width), RInt(height)), RInt(length))
    IN  RDiv(volumeCm3, RInt(1000))

CalculateTariff(volumeLiters, boxDeliveryBase, boxDeliveryLiter) ==
    RAdd(RMul(RSub(volumeLiters, RInt(1)), boxDeliveryLiter), boxDeliveryBase)

\* The two errors CalcPrice returns, named as the specification names them.
InfeasibleMargin == "InfeasibleMargin"
NegativePrice == "NegativePrice"
NoError == "nil"

\* The quotient of fixedCosts by a positive rounding residue (a denominator
\* whose exact value is zero): a number beyond every number of the model,
\* written with denominator 0.
ResidueQuotient(fixedCosts) ==
    IF fixedCosts[1] = 0 THEN RInt(0)
    ELSE <<(IF fixedCosts[1] < 0 THEN -1 ELSE 1), 0>>

\* The test of the denominator is the float64 test; the price is computed on
\* the exact values.
CalcPrice(desiredMargin, taxRate, commissionRate, fixedCosts) ==
    LET denominator == RSub(RSub(RSub(RInt(1), taxRate), commissionRate), desiredMargin)
    IN  IF DenominatorSign(desiredMargin, taxRate, commissionRate) <= 0
        THEN [price |-> RInt(0), err |-> InfeasibleMargin]
        ELSE LET price == IF denominator[1] = 0 THEN ResidueQuotient(fixedCosts)
                          ELSE RDiv(fixedCosts, denominator)
             IN  IF price[1] < 0
                 THEN [price |-> RInt(0), err |-> NegativePrice]
                 ELSE [price |-> price, err |-> NoError]

convertAndMultiply(priceStr, multiplierStr) ==
    LET price == ParseFloat(priceStr)
        multiplier == Atoi(multiplierStr)
    IN  IF ~price.ok THEN [val |-> 0, err |-> TRUE]
        ELSE IF ~multiplier.ok THEN [val |-> 0, err |-> TRUE]
        ELSE [val |-> Ceil(price.val) * multiplier.val, err |-> FALSE]

\* What int(x) may give for a NaN or infinite x: the Go specification leaves
\* the value to the implementation.
IntOfNonFinite == {0, -2147483647}

\* calculateNewPriceAndDiscount for one draw of the markup: the pairs
\* <<newPrice, newDiscount>> it can return.
calculateNewPriceAndDiscount(okPrice, markup) ==
    LET newPrice == Round(RDiv(RMul(okPrice, markup), RInt(5))) * 5
    IN  IF newPrice = 0
        THEN {<<newPrice, d>> : d \in IntOfNonFinite}
        ELSE {<<newPrice,
                Round(RSub(RInt(100),
                           RMul(RDiv(okPrice, RInt(newPrice)), RInt(100))))>>}

\* 1.3 + rand.Float64()*0.2 lies in [1.3, 1.5): the draws the model takes.
Markups == {Rat(13, 10), Rat(7, 5)}


(***************************************************************************)
(* The tariff resolver.                                                    *)
(***************************************************************************)
\* A json.RawMessage: a JSON number, a JSON string, or any other JSON value.
JNumber(r) == [kind |-> "number", num |-> r, str |-> <<>>]
JString(s) == [kind |-> "string", num |-> RInt(0), str |-> s]
JOther == [kind |-> "other", num |-> RInt(0), str |-> <<>>]

parseFloat(raw) ==
    IF raw.kind = "number" THEN [val |-> raw.num, err |-> FALSE]
    ELSE IF raw.kind = "string"
    THEN LET f == ParseFloat(ReplaceAll(raw.str, ",", "."))
         IN  [val |-> f.val, err |-> ~f.ok]
    ELSE [val |-> RInt(0), err |-> TRUE]

\* The label the resolver looks for (the code's "Маркетплейс").
MarketplaceName == "Marketplace"

\* The warehouses of the response from position i on.
RECURSIVE FirstMarketplace(_, _)
FirstMarketplace(list, i) ==
    IF i > Len(list) THEN 0
    ELSE IF list[i].WarehouseName = MarketplaceName THEN i
    ELSE FirstMarketplace(list, i + 1)

\* A resolver that falls back to the first warehouse of the response when
\* none carries the label.
getFBSTariffs_FirstWarehouse(answer) ==
    IF answer.err \/ answer.WarehouseList = <<>>
    THEN [base |-> RInt(0), liter |-> RInt(0), err |-> TRUE]
    ELSE LET found == FirstMarketplace(answer.WarehouseList, 1)
             i == IF found = 0 THEN 1 ELSE found
             b == parseFloat(answer.WarehouseList[i].BoxDeliveryBase)
             l == parseFloat(answer.WarehouseList[i].BoxDeliveryLiter)
         IN  IF b.err \/ l.err
             THEN [base |-> RInt(0), liter |-> RInt(0), err |-> TRUE]
             ELSE [base |-> b.val, liter |-> l.val, err |-> FALSE]

\* getFBSTariffs on an upstream answer: answer.err is a failed request or a
\* body that is not the expected JSON.
getFBSTariffs(answer) ==
    IF answer.err THEN [base |-> RInt(0), liter |-> RInt(0), err |-> TRUE]
    ELSE LET i == FirstMarketplace(answer.WarehouseList, 1)
         IN  IF i = 0 THEN [base |-> RInt(0), liter |-> RInt(0), err |-> TRUE]
             ELSE LET b == parseFloat(answer.WarehouseList[i].BoxDeliveryBase)
                      l == parseFloat(answer.WarehouseList[i].BoxDeliveryLiter)
                  IN  IF b.err \/ l.err
                      THEN [base |-> RInt(0), liter |-> RInt(0), err |-> TRUE]
                      ELSE [base |-> b.val, liter |-> l.val, err |-> FALSE]

Warehouse(name, b, l) ==
    [WarehouseName |-> name, BoxDeliveryBase |-> b, BoxDeliveryLiter |-> l]

\* The upstream answers the model draws from: a failure; the named warehouse
\* after another one, its values strings with a decimal comma; the named
\* warehouse with a per-liter cost above the base; no such warehouse; the
\* named warehouse with a value that is no number ("-").
TariffAnswers ==
    { [err |-> TRUE, WarehouseList |-> <<>>],
      [err |-> FALSE, WarehouseList |->
          << Warehouse("Koledino", JNumber(RInt(99)), JNumber(RInt(9))),
             Warehouse(MarketplaceName, JString(<<"5", "0">>),
                                        JString(<<"1", "0", ",", "0">>)) >>],
      [err |-> FALSE, WarehouseList |->
          << Warehouse(MarketplaceName, JNumber(RInt(10)), JNumber(RInt(1000))) >>],
      [err |-> FALSE, WarehouseList |->
          << Warehouse("Koledino", JNumber(RInt(99)), JNumber(RInt(9))) >>],
      [err |-> FALSE, WarehouseList |->
          << Warehouse(MarketplaceName, JString(<<"-">>), JNumber(RInt(9))) >>] }

(***************************************************************************)
(* The catalog: cards, pages and cursors.                                  *)
(***************************************************************************)
Dims(w, h, l) == [Width |-> w, Height |-> h, Length |-> l]

Card(nm, vendorCode, dims, sizes) ==
    [NmID |-> nm, VendorCode |-> vendorCode, Dimensions |-> dims, Sizes |-> sizes]

OneSKU(sku) == << [SKUs |-> <<sku>>] >>

vc_box_1_2 == <<"b", "o", "x", "_", "1", "_", "2">>
vc_box_1_3 == <<"b", "o", "x", "_", "1", "_", "3">>
vc_box_2_2 == <<"b", "o", "x", "_", "2", "_", "2">>
vc_box_1_x == <<"b", "o", "x", "_", "1", "_", "x">>
vc_box_1 == <<"b", "o", "x", "_", "1">>
vc_box == <<"b", "o", "x">>
vc_widget_77 == <<"w", "i", "d", "g", "e", "t", "_", "7", "7">>

\* The cards upstream pages are made of: two pack variants of product 1; a
\* card that repeats the first one's catalog id and carries two SKUs in two
\* sizes; a card of another naming scheme without any size; codes of two
\* segments, of one segment, and with a third segment that is no number.
CardPool ==
    { Card(1, vc_box_1_2, Dims(10, 10, 10), OneSKU("sku-a")),
      Card(2, vc_box_1_3, Dims(7, 7, 7), OneSKU("sku-b")),
      Card(1, vc_box_2_2, Dims(10, 10, 10),
           << [SKUs |-> <<"sku-m1">>], [SKUs |-> <<"sku-m2">>] >>),
      Card(3, vc_widget_77, Dims(10, 10, 10), <<>>),
      Card(4, vc_box_1, Dims(10, 10, 10), OneSKU("sku-s")),
      Card(5, vc_box, Dims(10, 10, 10), OneSKU("sku-o")),
      Card(6, vc_box_1_x, Dims(10, 10, 10), OneSKU("sku-x")) }

RECURSIVE SeqsUpTo(_, _)
SeqsUpTo(S, n) ==
    IF n = 0 THEN {<<>>}
    ELSE LET shorter == SeqsUpTo(S, n - 1)
         IN  shorter \cup {Append(q, x) : q \in {t \in shorter : Len(t) = n - 1}, x \in S}

Cursor(updatedAt, nm) == [UpdatedAt |-> updatedAt, NmID |-> nm]

\* Cursors of a response: two that continue the walk, and the three ways a
\* cursor can be empty or zero.
LiveCursors == { Cursor("t1", 7), Cursor("t2", 8) }
Cursors == LiveCursors \cup { Cursor("", 0), Cursor("t1", 0), Cursor("", 7) }

FailedRequest == [err |-> TRUE, Cards |-> <<>>, Cursor |-> Cursor("", 0)]

\* What getCardsList can return when at most room more cards fit the model.
CardsListResponses(room) ==
    {FailedRequest}
        \cup { [err |-> FALSE, Cards |-> cs, Cursor |-> c] :
                   cs \in SeqsUpTo(CardPool, room) \ {<<>>}, c \in Cursors }
        \cup { [err |-> FALSE, Cards |-> <<>>, Cursor |-> c] :
                   c \in {Cursor("t1", 7), Cursor("", 0)} }

\* The request body's cursor object as getCardsList builds it.
CursorBody(updatedAtArg, nmIDArg) ==
    [limit |-> 100,
     updatedAt |-> IF updatedAtArg # "" THEN <<updatedAtArg>> ELSE <<>>,
     nmID |-> IF nmIDArg # 0 THEN <<nmIDArg>> ELSE <<>>]


(***************************************************************************)
(* Price list, commissions, the page renderer.                             *)
(***************************************************************************)
Size(price, discounted, club) ==
    [Price |-> RInt(price), DiscountedPrice |-> RInt(discounted),
     ClubDiscountedPrice |-> RInt(club)]

Product(vendorCode, sizes) == [VendorCode |-> vendorCode, Sizes |-> sizes]

\* getProductPrices: a failure (the list stays nil), or a list in which one
\* vendor code occurs twice, first without sizes.
PriceAnswers ==
    { [err |-> TRUE, ListGoods |-> <<>>],
      [err |-> FALSE, ListGoods |->
          << Product(vc_box_1_2, <<>>),
             Product(vc_box_1_2, <<Size(900, 800, 700)>>),
             Product(vc_box_1_3, <<Size(500, 450, 400), Size(1, 1, 1)>>) >>] }

Commission(subjectID, kgvpMarketplace) ==
    [SubjectID |-> subjectID, KgvpMarketplace |-> kgvpMarketplace]

\* The category Process reads the commission of.
SubjectOfInterest == 3979

\* getCommission: a failure (nil report), a report without the category, a
\* report with it (15.5 %), and one that lists it twice (15.5 % and 62 %).
CommissionAnswers ==
    { [err |-> TRUE, Report |-> <<>>],
      [err |-> FALSE, Report |-> << Commission(1, RInt(20)) >>],
      [err |-> FALSE, Report |->
          << Commission(SubjectOfInterest, Rat(31, 2)), Commission(7, RInt(33)) >>],
      [err |-> FALSE, Report |->
          << Commission(SubjectOfInterest, Rat(31, 2)),
             Commission(SubjectOfInterest, RInt(62)) >>] }

\* Lines 89-94: the rate of the last report entry of the category, 0 if none.
RECURSIVE commissionRateOf(_, _)
commissionRateOf(commissions, rate) ==
    IF commissions = <<>> THEN rate
    ELSE commissionRateOf(Tail(commissions),
                          IF Head(commissions).SubjectID = SubjectOfInterest
                          THEN Trunc(Head(commissions).KgvpMarketplace)
                          ELSE rate)

NoData == [price |-> <<>>, availableCount |-> <<>>]

\* What chromedp.Run leaves behind: an error, or the price text and the
\* number of stores reporting stock.
PageOutcomes ==
    { [err |-> TRUE, productPrice |-> <<>>, availableStoresCount |-> 0],
      [err |-> FALSE, productPrice |-> <<" ", "1", "5", "0", ".", "5", "0", " ", "p">>,
       availableStoresCount |-> 3],
      [err |-> FALSE, productPrice |-> <<"-">>, availableStoresCount |-> 0] }

scrapeProductData(outcome) ==
    IF outcome.err THEN [data |-> NoData, err |-> TRUE]
    ELSE [data |-> [price |-> RemoveAll(RemoveAll(TrimSpace(outcome.productPrice), "p"), " "),
                    availableCount |-> Itoa(outcome.availableStoresCount)],
          err |-> FALSE]

(***************************************************************************)
(* The record store: the rows of table products in insertion order (the    *)
(* position of a row stands for its AUTOINCREMENT id).                     *)
(***************************************************************************)
\* The row an INSERT offers (SQL's "excluded").
Row(params, sku, availableCount, newPrice, newDiscount) ==
    [nm_id |-> params.NmID, vendor_code |-> params.VendorCode,
     width |-> params.Width, height |-> params.Height, length |-> params.Length,
     pcs |-> params.Pcs, product_id |-> params.ProductID, skus |-> sku,
     price |-> params.WbPrice, discounted_price |-> params.WbDiscountedPrice,
     club_discounted_price |-> params.WbClubDiscounted,
     available_count |-> availableCount, cost |-> params.Cost,
     tariff |-> params.Tariff, commission |-> params.Commission,
     ok_price |-> params.OKPrice, new_price |-> newPrice, new_discount |-> newDiscount]

\* An update that leaves the vendor code and the SKU of the stored row.
OnConflictUpdate_Partial(old, excluded) ==
    [excluded EXCEPT !.vendor_code = old.vendor_code, !.skus = old.skus]

\* ON CONFLICT(product_id, pcs) DO UPDATE SET ...
OnConflictUpdate(old, excluded) ==
    [old EXCEPT !.nm_id = excluded.nm_id,
                !.vendor_code = excluded.vendor_code,
                !.width = excluded.width,
                !.height = excluded.height,
                !.length = excluded.length,
                !.price = excluded.price,
                !.discounted_price = excluded.discounted_price,
                !.club_discounted_price = excluded.club_discounted_price,
                !.available_count = excluded.available_count,
                !.cost = excluded.cost,
                !.tariff = excluded.tariff,
                !.commission = excluded.commission,
                !.ok_price = excluded.ok_price,
                !.new_price = excluded.new_price,
                !.new_discount = excluded.new_discount,
                !.skus = excluded.skus]

\* UNIQUE (product_id, pcs): the rows a new row conflicts with.
Conflicts(db, row) ==
    {i \in 1..Len(db) : db[i].product_id = row.product_id /\ db[i].pcs = row.pcs}

\* An insert without the ON CONFLICT clause and without the UNIQUE constraint.
Upsert_Insert(db, row) == Append(db, row)

\* INSERT ... ON CONFLICT DO UPDATE.
Upsert(db, row) ==
    IF Conflicts(db, row) = {} THEN Append(db, row)
    ELSE [i \in 1..Len(db) |->
             IF i \in Conflicts(db, row) THEN OnConflictUpdate(db[i], row) ELSE db[i]]

\* saveToDatabase with the <<newPrice, newDiscount>> that
\* calculateNewPriceAndDiscount drew.
saveToDatabase(db, params, sku, drawn) ==
    LET parsed == Atoi(params.AvailableCountStr)
        availableCount == IF parsed.ok THEN parsed.val ELSE 0
    IN  Upsert(db, Row(params, sku, availableCount, drawn[1], drawn[2]))


(***************************************************************************)
(* The steps of one card.                                                  *)
(***************************************************************************)
\* The validation patterns the model configures: the documented example and
\* the empty pattern of a zero Config, which matches every string.
PatBox == "^box_\\d+_\\d+$"
PatAny == ""

\* regexp.MatchString for these two patterns.  A string matches PatBox iff
\* it is "box", "_", one or more digits, "_", one or more digits.
MatchString(pattern, str) ==
    IF pattern = PatAny THEN TRUE
    ELSE LET segs == Split(str, "_")
         IN  /\ Len(segs) = 3
             /\ segs[1] = <<"b", "o", "x">>
             /\ segs[2] # <<>> /\ AllDigits(segs[2])
             /\ segs[3] # <<>> /\ AllDigits(segs[3])

\* extractSKUs: per catalog id the SKUs of all sizes of the card, a later
\* card with the same id replacing an earlier one.
RECURSIVE AllSKUs(_)
AllSKUs(sizes) ==
    IF sizes = <<>> THEN <<>> ELSE Head(sizes).SKUs \o AllSKUs(Tail(sizes))

RECURSIVE extractSKUsInto(_, _)
extractSKUsInto(cards, skuMap) ==
    IF cards = <<>> THEN skuMap
    ELSE extractSKUsInto(Tail(cards),
                         MapPut(skuMap, Head(cards).NmID, AllSKUs(Head(cards).Sizes)))

extractSKUs(cards) == extractSKUsInto(cards, EmptyMap)

\* Lines 117-123: productID and pcsInt from the segments of the vendor code.
\* A decoder that reads the pack count whatever cfg.UsePcs says.
Decode_AlwaysPcs(parts, usePcs) ==
    LET val == Atoi(parts[3])
    IN  [productID |-> parts[2],
         pcsInt |-> IF Len(parts) > 2 /\ val.ok THEN val.val ELSE 1]

Decode(parts, usePcs) ==
    LET val == Atoi(parts[3])
    IN  [productID |-> parts[2],
         pcsInt |-> IF Len(parts) > 2 /\ usePcs /\ val.ok THEN val.val ELSE 1]

\* Lines 125-139: the prices of the first list entry with the vendor code.
RECURSIVE FirstWithCode(_, _, _)
FirstWithCode(list, vendorCode, i) ==
    IF i > Len(list) THEN 0
    ELSE IF list[i].VendorCode = vendorCode THEN i
    ELSE FirstWithCode(list, vendorCode, i + 1)

ZeroPrices == Size(0, 0, 0)

\* A lookup that goes on to the next entry of the same vendor code when one
\* has no sizes.
LookupPrices_FirstWithSizes(list, vendorCode) ==
    LET withSizes == { i \in DOMAIN list :
                          list[i].VendorCode = vendorCode /\ Len(list[i].Sizes) > 0 }
    IN  IF withSizes = {} THEN ZeroPrices
        ELSE list[CHOOSE i \in withSizes : \A j \in withSizes : i <= j].Sizes[1]

LookupPrices(list, vendorCode) ==
    LET i == FirstWithCode(list, vendorCode, 1)
    IN  IF i # 0 /\ Len(list[i].Sizes) > 0 THEN list[i].Sizes[1] ELSE ZeroPrices

\* Line 143 and line 154: the scrape cache.
CacheHit(cache, productID) == productID \in DOMAIN cache
\* A cache that holds the latest product only.
CacheStore_Single(cache, productID, productData) ==
    [x \in {productID} |-> productData]

\* A cache that stores nothing.
CacheStore_Forget(cache, productID, productData) == cache

CacheStore(cache, productID, productData) == MapPut(cache, productID, productData)

\* Lines 170-171.
Returns(tariff) == RDiv(RAdd(tariff, RInt(50)), RInt(9))
FixedCosts(cost, tariff, delivery, pvz) ==
    cost + Ceil(tariff) + delivery + pvz + Ceil(Returns(tariff))

\* Line 173 and line 179.
ComNum(rate) == RDiv(RAdd(RInt(rate), RInt(1)), RInt(100))
commissionAmount(okPrice, comNum) == Trunc(RMul(okPrice, comNum))

(***************************************************************************)
(* The state.                                                              *)
(***************************************************************************)
VARIABLES
    pc,                \* where Process stands
    ret,               \* how Process ended: "ok", "err_tariffs", "err_remove",
                       \* "err_open", "fatal" (log.Fatalf), "panic"
    cfg,               \* the Config argument
    store,             \* the rows of the database file cfg.DBName
    base, liter,       \* the FBS tariff coefficients
    allCards,          \* fetchAllCards: the cards accumulated
    updatedAt, nmID,   \* fetchAllCards: the cursor for the next request
    response,          \* fetchAllCards: the answer to the last request
    request,           \* the cursor object of the last request body
    nreq,              \* the number of page requests made
    stubFirst,         \* SpecWalk: the size of the stub source's first page
    prices,            \* the price list
    commissionRate,    \* the commission percentage
    productDataCache,  \* the scrape cache
    idx,               \* the position of the card loop in allCards
    scrapes,           \* history: the calls of scrapeProductData
    used,              \* history: <<productID, productData>> the cards were costed from
    upserted,          \* history: the keys saveToDatabase was called with
    log,               \* history: the outcome of each card, in order
    last               \* history: the last card's intermediate values

vars ==
    <<pc, ret, cfg, store, base, liter, allCards, updatedAt, nmID, response,
      request, nreq, stubFirst, prices, commissionRate, productDataCache, idx,
      scrapes, used, upserted, log, last>>

walkVars == <<allCards, updatedAt, nmID, response, request, nreq, stubFirst>>
loopVars == <<productDataCache, idx, scrapes, used, upserted, log, last>>

Config(pattern, usePcs) ==
    [ObjectIDs |-> <<3979>>, DesiredMargin |-> Rat(3, 10), TaxRate |-> Rat(7, 100),
     Delivery |-> 100, PVZ |-> 15, DBName |-> "ue.db",
     VendorCodePattern |-> pattern, UsePcs |-> usePcs]

Configs == { Config(PatBox, TRUE), Config(PatBox, FALSE), Config(PatAny, TRUE) }

\* A row an earlier run left in the database file.
StaleRow ==
    Row([NmID |-> 9, VendorCode |-> <<"b", "o", "x", "_", "9", "_", "1">>,
         Width |-> 1, Height |-> 1, Length |-> 1, Pcs |-> 1, ProductID |-> <<"9">>,
         WbPrice |-> RInt(0), WbDiscountedPrice |-> RInt(0), WbClubDiscounted |-> RInt(0),
         AvailableCountStr |-> <<"1">>, Cost |-> 10, Tariff |-> RInt(50),
         Commission |-> 1, OKPrice |-> RInt(100)],
        "sku-old", 1, 140, 29)

OldStores == { <<>>, <<StaleRow>> }

NoResponse == [err |-> FALSE, Cards |-> <<>>, Cursor |-> Cursor("", 0)]
NoRequest == [limit |-> 0, updatedAt |-> <<>>, nmID |-> <<>>]
NoCalc == [price |-> RInt(0), err |-> NoError]

NoLast ==
    [i |-> 0, kind |-> "none", productID |-> <<>>, pcs |-> 0, productData |-> NoData,
     fresh |-> FALSE, cost |-> 0, tariff |-> RInt(0), fixedCosts |-> 0,
     comNum |-> RInt(0), calc |-> NoCalc, commission |-> 0, sku |-> "",
     before |-> <<>>]

Init ==
    /\ pc = "tariffs"
    /\ ret = "none"
    /\ cfg \in Configs
    /\ store \in OldStores
    /\ base = RInt(0) /\ liter = RInt(0)
    /\ allCards = <<>>
    /\ updatedAt = "" /\ nmID = 0
    /\ response = NoResponse
    /\ request = NoRequest
    /\ nreq = 0
    /\ stubFirst = 0
    /\ prices = <<>>
    /\ commissionRate = 0
    /\ productDataCache = EmptyMap
    /\ idx = 0
    /\ scrapes = <<>>
    /\ used = {}
    /\ upserted = {}
    /\ log = <<>>
    /\ last = NoLast

(***************************************************************************)
(* Process, steps 1 and 2: tariffs, the database file, the table.          *)
(***************************************************************************)
\* Lines 41-45.
ResolveTariffs ==
    /\ pc = "tariffs"
    /\ \E answer \in TariffAnswers :
          LET t == getFBSTariffs(answer)
          IN  IF t.err
              THEN /\ pc' = "done" /\ ret' = "err_tariffs"
                   /\ UNCHANGED <<base, liter>>
              ELSE /\ pc' = "removeDB" /\ ret' = ret
                   /\ base' = t.base /\ liter' = t.liter
    /\ UNCHANGED <<cfg, store, prices, commissionRate>>
    /\ UNCHANGED walkVars
    /\ UNCHANGED loopVars

\* A removal that reports success and leaves the file.
RemoveDB_Keep ==
    /\ pc = "removeDB"
    /\ \/ /\ store' = store
          /\ pc' = "createTable" /\ ret' = ret
       \/ /\ store' = store
          /\ pc' = "done" /\ ret' = "err_remove"
    /\ UNCHANGED <<cfg, base, liter, prices, commissionRate>>
    /\ UNCHANGED walkVars
    /\ UNCHANGED loopVars

\* Lines 48-51: os.Remove deletes the file, finds none, or fails otherwise.
RemoveDB ==
    /\ pc = "removeDB"
    /\ \/ /\ store' = <<>>
          /\ pc' = "createTable" /\ ret' = ret
       \/ /\ store' = store
          /\ pc' = "done" /\ ret' = "err_remove"
    /\ UNCHANGED <<cfg, base, liter, prices, commissionRate>>
    /\ UNCHANGED walkVars
    /\ UNCHANGED loopVars

\* Lines 53-59: sql.Open, then createTable, which ends the process
\* (log.Fatalf) when the statement fails.
CreateTable ==
    /\ pc = "createTable"
    /\ \/ pc' = "fetch" /\ ret' = ret
       \/ pc' = "done" /\ ret' = "err_open"
       \/ pc' = "done" /\ ret' = "fatal"
    /\ UNCHANGED <<cfg, store, base, liter, prices, commissionRate>>
    /\ UNCHANGED walkVars
    /\ UNCHANGED loopVars


(***************************************************************************)
(* Step 3: fetchAllCards.                                                  *)
(***************************************************************************)
\* A loop that keeps the first cursor it was given.
fetchAllCardsStep_FirstCursor(resp) ==
    /\ request' = CursorBody(updatedAt, nmID)
    /\ response' = resp
    /\ nreq' = nreq + 1
    /\ IF resp.err
       THEN /\ pc' = "fetchReturn"
            /\ UNCHANGED <<allCards, updatedAt, nmID>>
       ELSE IF Len(resp.Cards) = 0
       THEN /\ pc' = "fetchReturn"
            /\ UNCHANGED <<allCards, updatedAt, nmID>>
       ELSE /\ allCards' = allCards \o resp.Cards
            /\ updatedAt' = IF updatedAt = "" THEN resp.Cursor.UpdatedAt ELSE updatedAt
            /\ nmID' = IF nmID = 0 THEN resp.Cursor.NmID ELSE nmID
            /\ pc' = IF resp.Cursor.UpdatedAt = "" \/ resp.Cursor.NmID = 0
                     THEN "fetchReturn" ELSE "fetch"
    /\ UNCHANGED <<ret, cfg, store, base, liter, prices, commissionRate, stubFirst>>
    /\ UNCHANGED loopVars

\* A loop that goes on whenever the cursor's updatedAt is non-empty.
fetchAllCardsStep_TimeOnly(resp) ==
    /\ request' = CursorBody(updatedAt, nmID)
    /\ response' = resp
    /\ nreq' = nreq + 1
    /\ IF resp.err \/ Len(resp.Cards) = 0
       THEN /\ pc' = "fetchReturn"
            /\ UNCHANGED <<allCards, updatedAt, nmID>>
       ELSE /\ allCards' = allCards \o resp.Cards
            /\ updatedAt' = resp.Cursor.UpdatedAt
            /\ nmID' = resp.Cursor.NmID
            /\ pc' = IF resp.Cursor.UpdatedAt = "" THEN "fetchReturn" ELSE "fetch"
    /\ UNCHANGED <<ret, cfg, store, base, liter, prices, commissionRate, stubFirst>>
    /\ UNCHANGED loopVars

\* A loop that an empty page does not end.
fetchAllCardsStep_PastEmpty(resp) ==
    /\ request' = CursorBody(updatedAt, nmID)
    /\ response' = resp
    /\ nreq' = nreq + 1
    /\ IF resp.err
       THEN /\ pc' = "fetchReturn"
            /\ UNCHANGED <<allCards, updatedAt, nmID>>
       ELSE /\ allCards' = allCards \o resp.Cards
            /\ updatedAt' = resp.Cursor.UpdatedAt
            /\ nmID' = resp.Cursor.NmID
            /\ pc' = IF resp.Cursor.UpdatedAt = "" \/ resp.Cursor.NmID = 0
                     THEN "fetchReturn" ELSE "fetch"
    /\ UNCHANGED <<ret, cfg, store, base, liter, prices, commissionRate, stubFirst>>
    /\ UNCHANGED loopVars

\* One iteration of the loop of fetchAllCards: the request (getCardsList
\* with the current cursor) and the handling of its answer resp.
fetchAllCardsStep(resp) ==
    /\ request' = CursorBody(updatedAt, nmID)
    /\ response' = resp
    /\ nreq' = nreq + 1
    /\ IF resp.err
       THEN /\ pc' = "fetchReturn"
            /\ UNCHANGED <<allCards, updatedAt, nmID>>
       ELSE IF Len(resp.Cards) = 0
       THEN /\ pc' = "fetchReturn"
            /\ UNCHANGED <<allCards, updatedAt, nmID>>
       ELSE /\ allCards' = allCards \o resp.Cards
            /\ updatedAt' = resp.Cursor.UpdatedAt
            /\ nmID' = resp.Cursor.NmID
            /\ pc' = IF resp.Cursor.UpdatedAt = "" \/ resp.Cursor.NmID = 0
                     THEN "fetchReturn" ELSE "fetch"
    /\ UNCHANGED <<ret, cfg, store, base, liter, prices, commissionRate, stubFirst>>
    /\ UNCHANGED loopVars

\* Lines 474-492 against an arbitrary upstream.
FetchPage ==
    /\ pc = "fetch"
    /\ \E resp \in CardsListResponses(MaxCards - Len(allCards)) :
          fetchAllCardsStep(resp)

\* Line 493 and lines 62-63: fetchAllCards returns; its locals are gone.
FetchReturn ==
    /\ pc = "fetchReturn"
    /\ pc' = "prices"
    /\ updatedAt' = "" /\ nmID' = 0
    /\ response' = NoResponse
    /\ request' = NoRequest
    /\ nreq' = 0
    /\ UNCHANGED <<ret, cfg, store, base, liter, allCards, prices, commissionRate,
                   stubFirst>>
    /\ UNCHANGED loopVars

(***************************************************************************)
(* Steps 5 and 6: the price list and the commission.                       *)
(***************************************************************************)
\* Lines 77-80.
LoadPrices ==
    /\ pc = "prices"
    /\ \E answer \in PriceAnswers :
          prices' = IF answer.err THEN <<>> ELSE answer.ListGoods
    /\ pc' = "commission"
    /\ UNCHANGED <<ret, cfg, store, base, liter, commissionRate>>
    /\ UNCHANGED walkVars
    /\ UNCHANGED loopVars

\* Lines 83-99.
LoadCommission ==
    /\ pc = "commission"
    /\ \E answer \in CommissionAnswers :
          commissionRate' =
              commissionRateOf(IF answer.err THEN <<>> ELSE answer.Report, 0)
    /\ productDataCache' = EmptyMap
    /\ idx' = 1
    /\ pc' = "loop"
    /\ UNCHANGED <<ret, cfg, store, base, liter, prices>>
    /\ UNCHANGED walkVars
    /\ UNCHANGED <<scrapes, used, upserted, log, last>>

(***************************************************************************)
(* Step 7: the card loop.                                                  *)
(***************************************************************************)
\* A loop that asks for the tariffs again on every card.
LoopFrame_Reload ==
    /\ \E answer \in TariffAnswers :
          LET t == getFBSTariffs(answer)
          IN  IF t.err THEN UNCHANGED <<base, liter>>
              ELSE base' = t.base /\ liter' = t.liter
    /\ UNCHANGED <<cfg, prices, commissionRate>>
    /\ UNCHANGED walkVars

LoopFrame ==
    /\ UNCHANGED <<cfg, base, liter, prices, commissionRate>>
    /\ UNCHANGED walkVars

\* The kinds of per-item skip, as the log names them: pattern mismatch (lines
\* 102-105), fewer than two segments (113-116), scrape failure (150-153),
\* conversion failure (158-162), CalcPrice error (174-178).
SkipKinds == {"skip_pattern", "skip_segments", "skip_scrape", "skip_convert", "skip_price"}

\* A skip that ends the run.
SkipCard_Abort(kind, cache, calls, rec) ==
    /\ pc' = "done" /\ ret' = "panic"
    /\ idx' = idx + 1
    /\ store' = store
    /\ productDataCache' = cache
    /\ scrapes' = calls
    /\ log' = Append(log, kind)
    /\ last' = [rec EXCEPT !.kind = kind]
    /\ upserted' = upserted
    /\ LoopFrame

\* "continue": the card is left, the loop goes on.
SkipCard(kind, cache, calls, rec) ==
    /\ pc' = "loop" /\ ret' = ret
    /\ idx' = idx + 1
    /\ store' = store
    /\ productDataCache' = cache
    /\ scrapes' = calls
    /\ log' = Append(log, kind)
    /\ last' = [rec EXCEPT !.kind = kind]
    /\ upserted' = upserted
    /\ LoopFrame

\* Lines 157-198 for a card whose product data is at hand: cost, tariff,
\* fixed costs, price, and the upsert.
PriceAndSave(card, sku, productID, pcsInt, productData, fresh, cache, calls) ==
    LET conv == convertAndMultiply(productData.price, Itoa(pcsInt))
        cost == conv.val
        volumeInLiters == CalculateVolumeLiters(card.Dimensions.Width,
                                                card.Dimensions.Height,
                                                card.Dimensions.Length)
        tariff == CalculateTariff(volumeInLiters, base, liter)
        fixedCosts == FixedCosts(cost, tariff, cfg.Delivery, cfg.PVZ)
        comNum == ComNum(commissionRate)
        calc == CalcPrice(cfg.DesiredMargin, cfg.TaxRate, comNum, RInt(fixedCosts))
        okPrice == calc.price
        commission == commissionAmount(okPrice, comNum)
        wb == LookupPrices(prices, card.VendorCode)
        params == [NmID |-> card.NmID, VendorCode |-> card.VendorCode,
                   Width |-> card.Dimensions.Width, Height |-> card.Dimensions.Height,
                   Length |-> card.Dimensions.Length, Pcs |-> pcsInt,
                   ProductID |-> productID, WbPrice |-> wb.Price,
                   WbDiscountedPrice |-> wb.DiscountedPrice,
                   WbClubDiscounted |-> wb.ClubDiscountedPrice,
                   AvailableCountStr |-> productData.availableCount,
                   Cost |-> cost, Tariff |-> tariff, Commission |-> commission,
                   OKPrice |-> okPrice]
        rec == [NoLast EXCEPT !.i = idx, !.productID = productID, !.pcs = pcsInt,
                              !.productData = productData, !.fresh = fresh,
                              !.sku = sku, !.before = store]
    IN  /\ used' = used \cup {<<productID, productData>>}
        /\ IF conv.err
           THEN SkipCard("skip_convert", cache, calls, rec)
           ELSE IF calc.err # NoError
           THEN SkipCard("skip_price", cache, calls,
                         [rec EXCEPT !.cost = cost, !.tariff = tariff,
                                     !.fixedCosts = fixedCosts, !.comNum = comNum,
                                     !.calc = calc])
           ELSE \E markup \in Markups :
                  \E drawn \in calculateNewPriceAndDiscount(okPrice, markup) :
                     /\ store' = saveToDatabase(store, params, sku, drawn)
                     /\ upserted' = upserted \cup {<<productID, pcsInt>>}
                     /\ pc' = "loop" /\ ret' = ret
                     /\ idx' = idx + 1
                     /\ productDataCache' = cache
                     /\ scrapes' = calls
                     /\ log' = Append(log, "saved")
                     /\ last' = [rec EXCEPT !.kind = "saved", !.cost = cost,
                                            !.tariff = tariff,
                                            !.fixedCosts = fixedCosts,
                                            !.comNum = comNum, !.calc = calc,
                                            !.commission = commission]
                     /\ LoopFrame

\* A lookup that keeps the result of a failed call in the cache as well.
ScrapeAndPrice_CacheFailure(card, sku, productID, pcsInt) ==
    IF CacheHit(productDataCache, productID)
    THEN PriceAndSave(card, sku, productID, pcsInt, productDataCache[productID],
                      FALSE, productDataCache, scrapes)
    ELSE \E outcome \in PageOutcomes :
            LET r == scrapeProductData(outcome)
                calls == Append(scrapes, [productID |-> productID, err |-> r.err,
                                          productData |-> r.data])
            IN  IF r.err
                THEN /\ SkipCard("skip_scrape",
                                 CacheStore(productDataCache, productID, r.data), calls,
                                 [NoLast EXCEPT !.i = idx, !.productID = productID,
                                                !.pcs = pcsInt, !.fresh = TRUE,
                                                !.sku = sku, !.before = store])
                     /\ used' = used
                ELSE PriceAndSave(card, sku, productID, pcsInt, r.data, TRUE,
                                  CacheStore(productDataCache, productID, r.data),
                                  calls)

\* Lines 141-155: the product data from the cache, or from the page.
ScrapeAndPrice(card, sku, productID, pcsInt) ==
    IF CacheHit(productDataCache, productID)
    THEN PriceAndSave(card, sku, productID, pcsInt, productDataCache[productID],
                      FALSE, productDataCache, scrapes)
    ELSE \E outcome \in PageOutcomes :
            LET r == scrapeProductData(outcome)
                calls == Append(scrapes, [productID |-> productID, err |-> r.err,
                                          productData |-> r.data])
            IN  IF r.err
                THEN /\ SkipCard("skip_scrape", productDataCache, calls,
                                 [NoLast EXCEPT !.i = idx, !.productID = productID,
                                                !.pcs = pcsInt, !.fresh = TRUE,
                                                !.sku = sku, !.before = store])
                     /\ used' = used
                ELSE PriceAndSave(card, sku, productID, pcsInt, r.data, TRUE,
                                  CacheStore(productDataCache, productID, r.data),
                                  calls)

\* A loop body that counts the SKUs before it looks at the vendor code.
ProcessCard_SKUFirst ==
    /\ pc = "loop"
    /\ idx <= Len(allCards)
    /\ LET card == allCards[idx]
           skuMap == extractSKUs(allCards)
           skus == skuMap[card.NmID]
           parts == Split(card.VendorCode, "_")
           matches == MatchString(cfg.VendorCodePattern, card.VendorCode)
           rec == [NoLast EXCEPT !.i = idx, !.before = store]
       IN  \/ /\ Len(skus) # 1
              /\ pc' = "done" /\ ret' = "panic"
              /\ log' = Append(log, "panic_sku")
              /\ last' = [rec EXCEPT !.kind = "panic_sku"]
              /\ UNCHANGED <<store, productDataCache, idx, scrapes, used, upserted>>
              /\ LoopFrame
           \/ /\ Len(skus) = 1
              /\ ~matches
              /\ SkipCard("skip_pattern", productDataCache, scrapes, rec)
              /\ used' = used
           \/ /\ matches
              /\ Len(skus) = 1
              /\ Len(parts) < 2
              /\ SkipCard("skip_segments", productDataCache, scrapes, rec)
              /\ used' = used
           \/ /\ matches
              /\ Len(skus) = 1
              /\ Len(parts) >= 2
              /\ LET d == Decode(parts, cfg.UsePcs)
                 IN  ScrapeAndPrice(card, skus[1], d.productID, d.pcsInt)

\* Lines 101-199: one iteration of the loop over allCards.
ProcessCard ==
    /\ pc = "loop"
    /\ idx <= Len(allCards)
    /\ LET card == allCards[idx]
           skuMap == extractSKUs(allCards)
           skus == skuMap[card.NmID]
           parts == Split(card.VendorCode, "_")
           matches == MatchString(cfg.VendorCodePattern, card.VendorCode)
           rec == [NoLast EXCEPT !.i = idx, !.before = store]
       IN  \/ /\ ~matches
              /\ SkipCard("skip_pattern", productDataCache, scrapes, rec)
              /\ used' = used
           \/ /\ matches
              /\ Len(skus) # 1
              /\ pc' = "done" /\ ret' = "panic"
              /\ log' = Append(log, "panic_sku")
              /\ last' = [rec EXCEPT !.kind = "panic_sku"]
              /\ UNCHANGED <<store, productDataCache, idx, scrapes, used, upserted>>
              /\ LoopFrame
           \/ /\ matches
              /\ Len(skus) = 1
              /\ Len(parts) < 2
              /\ SkipCard("skip_segments", productDataCache, scrapes, rec)
              /\ used' = used
           \/ /\ matches
              /\ Len(skus) = 1
              /\ Len(parts) >= 2
              /\ LET d == Decode(parts, cfg.UsePcs)
                 IN  ScrapeAndPrice(card, skus[1], d.productID, d.pcsInt)

\* Lines 201-202.
Finish ==
    /\ pc = "loop"
    /\ idx > Len(allCards)
    /\ pc' = "done" /\ ret' = "ok"
    /\ UNCHANGED <<cfg, store, base, liter, prices, commissionRate>>
    /\ UNCHANGED walkVars
    /\ UNCHANGED loopVars

Next ==
    \/ ResolveTariffs
    \/ RemoveDB
    \/ CreateTable
    \/ FetchPage
    \/ FetchReturn
    \/ LoadPrices
    \/ LoadCommission
    \/ ProcessCard
    \/ Finish

Spec == Init /\ [][Next]_vars

(***************************************************************************)
(* fetchAllCards against a stub source whose pages shrink: the first page  *)
(* has stubFirst cards, every later page fewer than the one before, and    *)
(* every cursor is non-empty.                                              *)
(***************************************************************************)
StubCards ==
    { Card(1, vc_box_1_2, Dims(10, 10, 10), OneSKU("sku-a")),
      Card(2, vc_box_1_3, Dims(7, 7, 7), OneSKU("sku-b")) }

StubResponses(n) ==
    { [err |-> FALSE, Cards |-> cards, Cursor |-> c] :
        cards \in { p \in SeqsUpTo(StubCards, n) : Len(p) = n }, c \in LiveCursors }

InitWalk ==
    /\ pc = "fetch"
    /\ ret = "none"
    /\ cfg = Config(PatBox, TRUE)
    /\ store = <<>>
    /\ base = RInt(50) /\ liter = RInt(10)
    /\ allCards = <<>>
    /\ updatedAt = "" /\ nmID = 0
    /\ response = NoResponse
    /\ request = NoRequest
    /\ nreq = 0
    /\ stubFirst \in 0..MaxStubCards
    /\ prices = <<>>
    /\ commissionRate = 0
    /\ productDataCache = EmptyMap
    /\ idx = 0
    /\ scrapes = <<>>
    /\ used = {}
    /\ upserted = {}
    /\ log = <<>>
    /\ last = NoLast

\* Lines 474-492 against the stub source.
FetchStubPage ==
    /\ pc = "fetch"
    /\ \E n \in 0..MaxStubCards :
          /\ IF nreq = 0 THEN n = stubFirst ELSE n < Len(response.Cards)
          /\ \E resp \in StubResponses(n) : fetchAllCardsStep(resp)

\* Line 493: fetchAllCards returns to its caller.
WalkReturn ==
    /\ pc = "fetchReturn"
    /\ pc' = "returned"
    /\ UNCHANGED <<ret, cfg, store, base, liter, prices, commissionRate>>
    /\ UNCHANGED walkVars
    /\ UNCHANGED loopVars

NextWalk ==
    \/ FetchStubPage
    \/ WalkReturn

SpecWalk == InitWalk /\ [][NextWalk]_vars

(***************************************************************************)
(* CalcPrice as a function of its four arguments.                          *)
(***************************************************************************)
CalcMargins == { Rat(1, 5), Rat(3, 10) }
CalcTaxRates == { Rat(7, 100), Rat(1, 10) }
CalcCommissions ==
    { Rat(1, 100), Rat(2, 25), Rat(4, 25), Rat(3, 5), Rat(63, 100), Rat(7, 10),
      Rat(73, 100), Rat(4, 5) }
CalcFixedCosts == { -145, 0, 300, 434 }

InitCalc ==
    /\ pc = "calc"
    /\ ret = "none"
    /\ \E m \in CalcMargins, t \in CalcTaxRates :
          cfg = [Config(PatBox, TRUE) EXCEPT !.DesiredMargin = m, !.TaxRate = t]
    /\ store = <<>>
    /\ base = RInt(50) /\ liter = RInt(10)
    /\ allCards = <<>>
    /\ updatedAt = "" /\ nmID = 0
    /\ response = NoResponse
    /\ request = NoRequest
    /\ nreq = 0
    /\ stubFirst = 0
    /\ prices = <<>>
    /\ commissionRate = 0
    /\ productDataCache = EmptyMap
    /\ idx = 0
    /\ scrapes = <<>>
    /\ used = {}
    /\ upserted = {}
    /\ log = <<>>
    /\ \E c \in CalcCommissions, f \in CalcFixedCosts :
          last = [NoLast EXCEPT !.comNum = c, !.fixedCosts = f]

\* Line 174: the call of CalcPrice.
CallCalcPrice ==
    /\ pc = "calc"
    /\ pc' = "calculated"
    /\ last' = [last EXCEPT !.kind = "calc",
                            !.calc = CalcPrice(cfg.DesiredMargin, cfg.TaxRate,
                                               last.comNum, RInt(last.fixedCosts))]
    /\ UNCHANGED <<ret, cfg, store, base, liter, prices, commissionRate>>
    /\ UNCHANGED walkVars
    /\ UNCHANGED <<productDataCache, idx, scrapes, used, upserted, log>>

NextCalc == CallCalcPrice

SpecCalc == InitCalc /\ [][NextCalc]_vars


(***************************************************************************)
(* The properties.                                                         *)
(***************************************************************************)
KeyOf(row) == <<row.product_id, row.pcs>>

\* C1, as stated: in a run, scrapeProductData is called at most once for
\* every source product id.
C1_AtMostOneCallPerID ==
    \A i, j \in DOMAIN scrapes :
        scrapes[i].productID = scrapes[j].productID => i = j

\* C1, amended: scrapeProductData is called again for an id only after every
\* earlier call for that id failed, so at most one call per id succeeds and
\* none follows it; all cards with the same id are costed from one and the
\* same result, the one that call returned.
C1_OneSuccessfulCallPerID ==
    /\ \A i, j \in DOMAIN scrapes :
          (i < j /\ scrapes[i].productID = scrapes[j].productID) => scrapes[i].err
    /\ \A u, v \in used : u[1] = v[1] => u[2] = v[2]
    /\ \A u \in used :
          \E i \in DOMAIN scrapes :
              /\ scrapes[i].productID = u[1]
              /\ ~scrapes[i].err
              /\ scrapes[i].productData = u[2]

\* Two cards with one id were stored after a single call, the second from
\* the cache.
C1_TwoCardsOneCall ==
    /\ Len(log) = 2 /\ log[1] = "saved" /\ log[2] = "saved"
    /\ Len(scrapes) = 1
    /\ last.i = 2 /\ ~last.fresh

C4_SkipsNeverAbort ==
    (pc = "done" /\ \E i \in DOMAIN log : log[i] \in SkipKinds) => ret = "ok"

\* C4, amended: a skipped card leaves the store as it was and the loop goes
\* on to the next card; a run with skipped cards ends with success after
\* every card, unless a later card raises the data-integrity abort.
C4_SkipLeavesStoreAndLoopGoesOn ==
    /\ last.kind \in SkipKinds =>
          /\ store = last.before
          /\ idx = last.i + 1
          /\ pc = "loop" \/ (pc = "done" /\ ret = "ok")
    /\ (pc = "done" /\ \E i \in DOMAIN log : log[i] \in SkipKinds) =>
          \/ ret = "ok" /\ Len(log) = Len(allCards)
          \/ ret = "panic" /\ log[Len(log)] = "panic_sku"
    /\ \A i \in DOMAIN log : log[i] = "panic_sku" => i = Len(log)

\* A card was skipped, the next one saved, and Process returned success.
C4_SkippedThenSaved ==
    /\ pc = "done" /\ ret = "ok"
    /\ Len(log) = 2 /\ log[1] \in SkipKinds /\ log[2] = "saved"

\* C5, as stated: every card the loop reaches whose vendor code matches the
\* pattern and whose sizes hold zero or several SKUs aborts the run.
C5_BadSKUCountAborts ==
    \A i \in DOMAIN log :
        (/\ MatchString(cfg.VendorCodePattern, allCards[i].VendorCode)
         /\ Len(AllSKUs(allCards[i].Sizes)) # 1)
            => log[i] = "panic_sku"

\* What the label's warehouse of an answer says, read independently of
\* parseFloat.
C6_Reads(raw, value) ==
    \/ raw.kind = "number" /\ raw.num = value
    \/ /\ raw.kind = "string"
       /\ <<raw.str, value>> \in { << <<"5", "0">>, RInt(50) >>,
                                   << <<"1", "0", ",", "0">>, RInt(10) >> }

\* C6: a run passes tariff resolution only with the coefficients of a
\* warehouse carrying the label; when the resolution fails, Process has
\* returned the error, the step that failed left the database file alone,
\* nothing was fetched, looked up, scraped or written, and no step follows.
C6_TariffFailureEndsRun ==
    /\ [](/\ (pc # "tariffs" /\ ret # "err_tariffs") =>
                \E answer \in TariffAnswers :
                    /\ ~answer.err
                    /\ \E i \in DOMAIN answer.WarehouseList :
                          /\ answer.WarehouseList[i].WarehouseName = MarketplaceName
                          /\ C6_Reads(answer.WarehouseList[i].BoxDeliveryBase, base)
                          /\ C6_Reads(answer.WarehouseList[i].BoxDeliveryLiter, liter)
          /\ ret = "err_tariffs" =>
                /\ pc = "done"
                /\ allCards = <<>> /\ nreq = 0 /\ request = NoRequest
                /\ prices = <<>> /\ commissionRate = 0 /\ idx = 0
                /\ scrapes = <<>> /\ upserted = {} /\ log = <<>>)
    /\ [][/\ ret' = "err_tariffs" => store' = store
          /\ ret # "err_tariffs"]_vars

\* The resolution failed with a database file of an earlier run in place.
C6_FailedWithOldStore ==
    /\ ret = "err_tariffs"
    /\ store = <<StaleRow>>

\* C7: fetchAllCards asks for another page exactly when the last request
\* succeeded, brought at least one card and a cursor with a non-empty
\* updatedAt and a non-zero nmID; every request appends the cards of its
\* answer, a failed one nothing; the return hands the accumulated cards to
\* Process, which goes on to the price list.
C7_WalkContinuesExactlyWhile ==
    /\ []((nreq > 0 /\ pc \in {"fetch", "fetchReturn"}) =>
             (pc = "fetch" <=> /\ ~response.err
                               /\ Len(response.Cards) > 0
                               /\ response.Cursor.UpdatedAt # ""
                               /\ response.Cursor.NmID # 0))
    /\ [][/\ pc = "fetch" =>
                /\ nreq' = nreq + 1
                /\ allCards' = allCards \o (IF response'.err THEN <<>>
                                            ELSE response'.Cards)
          /\ pc = "fetchReturn" =>
                pc' = "prices" /\ ret' = ret /\ allCards' = allCards
          /\ pc \notin {"fetch", "fetchReturn"} => allCards' = allCards]_vars

\* The walk ended on its second page, whose cards were kept although its
\* cursor was empty.
C7_FinalPageKept ==
    /\ pc = "fetchReturn" /\ nreq = 2
    /\ ~response.err /\ Len(response.Cards) = 1
    /\ response.Cursor.UpdatedAt = ""
    /\ Len(allCards) = 2 /\ allCards[2] = response.Cards[1]

\* C8: against a source whose pages shrink from stubFirst cards, the walk
\* makes at most stubFirst + 1 requests, and asks for another page only
\* while fewer than that were made.
C8_WalkBoundedByFirstPage ==
    /\ nreq <= stubFirst + 1
    /\ pc = "fetch" => nreq <= stubFirst
    /\ (pc = "fetch" /\ nreq > 0) => Len(response.Cards) + nreq <= stubFirst + 1

\* The walk returned after the largest number of requests the bound allows.
C8_WalkUsedEveryRequest ==
    /\ pc = "returned"
    /\ stubFirst = MaxStubCards
    /\ nreq = MaxStubCards + 1

\* The position of the k-th "_" of a vendor code, or one past its end.
C9_Cut(vc, k) ==
    LET us == {i \in 1..Len(vc) : vc[i] = "_"}
    IN  IF Cardinality(us) < k THEN Len(vc) + 1
        ELSE CHOOSE i \in us : Cardinality({j \in us : j <= i}) = k

\* The segment after the k-th "_".
C9_After(vc, k) == SubSeq(vc, C9_Cut(vc, k) + 1, C9_Cut(vc, k + 1) - 1)

C9_PackCount(vc, usePcs) ==
    IF /\ usePcs
       /\ C9_Cut(vc, 2) <= Len(vc)
       /\ C9_After(vc, 2) # <<>>
       /\ AllDigits(C9_After(vc, 2))
    THEN DecValue(C9_After(vc, 2))
    ELSE 1

\* C9: a card that was decoded has an accepted vendor code, its product id
\* is the segment after the prefix, its pack count the number in the next
\* segment if UsePcs is set and that segment is there and numeric, else 1;
\* a card whose vendor code is not accepted is skipped as such.
C9_DecodedAsSpecified ==
    /\ last.kind \in {"skip_scrape", "skip_convert", "skip_price", "saved"} =>
          LET vc == allCards[last.i].VendorCode
          IN  /\ MatchString(cfg.VendorCodePattern, vc)
              /\ last.productID = C9_After(vc, 1)
              /\ last.pcs = C9_PackCount(vc, cfg.UsePcs)
    /\ \A i \in DOMAIN log :
          ~MatchString(cfg.VendorCodePattern, allCards[i].VendorCode)
              => log[i] = "skip_pattern"

\* A card box_1_3 was stored with pack count 3.
C9_PackCountDecoded ==
    /\ last.kind = "saved"
    /\ cfg.UsePcs
    /\ allCards[last.i].VendorCode = vc_box_1_3
    /\ last.productID = <<"1">> /\ last.pcs = 3

\* C10, as stated: CalcPrice returns InfeasibleMargin when
\* taxRate + commissionRate + desiredMargin >= 1, NegativePrice when the
\* denominator is positive and fixedCosts negative, and otherwise
\* fixedCosts / (1 - taxRate - commissionRate - desiredMargin); the price
\* is never negative.
C10_CalcPriceContract ==
    pc = "calculated" =>
        LET sum == RAdd(RAdd(cfg.TaxRate, last.comNum), cfg.DesiredMargin)
        IN  /\ RLeq(RInt(1), sum) => last.calc.err = InfeasibleMargin
            /\ (RLt(sum, RInt(1)) /\ last.fixedCosts < 0) =>
                  last.calc.err = NegativePrice
            /\ (RLt(sum, RInt(1)) /\ last.fixedCosts >= 0) =>
                  /\ last.calc.err = NoError
                  /\ last.calc.price = RDiv(RInt(last.fixedCosts), RSub(RInt(1), sum))
            /\ last.calc.price[1] >= 0

\* The cards that got as far as the product data: their outcomes in the log.
DecodedKinds == {"skip_scrape", "skip_convert", "skip_price", "saved"}

\* C11, as stated: the fixed cost handed to CalcPrice is
\* ceil(scrapedCost * packCount) + ceil(tariff) + delivery + pvz
\* + ceil((tariff + 50) / 9), with the tariff unclamped.
C11_FixedCostAsSpecified ==
    last.kind \in {"saved", "skip_price"} =>
        LET card == allCards[last.i]
            scrapedCost == ParseFloat(last.productData.price).val
            volume == RDiv(RInt(card.Dimensions.Width * card.Dimensions.Height
                                * card.Dimensions.Length), RInt(1000))
            tariff == RAdd(RMul(RSub(volume, RInt(1)), liter), base)
        IN  /\ last.tariff = tariff
            /\ last.fixedCosts =
                  Ceil(RMul(scrapedCost, RInt(last.pcs))) + Ceil(tariff)
                  + cfg.Delivery + cfg.PVZ
                  + Ceil(RDiv(RAdd(tariff, RInt(50)), RInt(9)))

\* The product id a card of the log was decoded to (decoded cards only).
ProductIDOfCard(i) == Decode(Split(allCards[i].VendorCode, "_"), cfg.UsePcs).productID

\* The cards with a given outcome and product id, and the calls made for an id.
CardsWith(kind, id) ==
    { i \in DOMAIN log : log[i] = kind /\ ProductIDOfCard(i) = id }
CallsFor(id) == { k \in DOMAIN scrapes : scrapes[k].productID = id }

\* C12: a failed scrape stores nothing in the cache for that id and the card
\* is skipped with the store untouched and the run not ended by it; a failure
\* is never served from the cache: every card whose scrape failed cost one
\* call of its own, so the calls made for an id are one per failed card plus
\* one for the success that filled the cache, and no failed call's data is
\* ever used to cost a card.
C12_FailedScrapeNotCached ==
    /\ last.kind = "skip_scrape" =>
          /\ ~CacheHit(productDataCache, last.productID)
          /\ store = last.before
          /\ \/ pc = "loop" /\ ret = "none"
             \/ pc = "done" /\ ret = "ok" /\ last.i = Len(allCards)
          /\ idx = last.i + 1
          /\ scrapes[Len(scrapes)].err
          /\ scrapes[Len(scrapes)].productID = last.productID
    /\ \A k \in DOMAIN scrapes :
          LET id == scrapes[k].productID
          IN  /\ Cardinality(CallsFor(id)) =
                    Cardinality(CardsWith("skip_scrape", id))
                    + (IF CacheHit(productDataCache, id) THEN 1 ELSE 0)
              /\ scrapes[k].err => <<id, scrapes[k].productData>> \notin used
    /\ \A i \in DOMAIN log :
          (i >= 2 /\ log[i] \in DecodedKinds /\ log[i - 1] = "skip_scrape"
             /\ ProductIDOfCard(i) = ProductIDOfCard(i - 1))
          => \E k \in CallsFor(ProductIDOfCard(i)) :
                k >= 2 /\ scrapes[k - 1].err
                /\ scrapes[k - 1].productID = scrapes[k].productID

\* C12 witness: a card's scrape failed, the next card has the same id, was
\* scraped again, and was saved.
C12_FailedThenScrapedAgain ==
    /\ Len(log) = 2 /\ log[1] = "skip_scrape" /\ log[2] = "saved"
    /\ Len(scrapes) = 2
    /\ scrapes[1].productID = scrapes[2].productID
    /\ scrapes[1].err /\ ~scrapes[2].err
    /\ last.fresh

\* The rows of the store, and the rows a card of this run wrote.
RowsOf(db) == { db[i] : i \in DOMAIN db }
WrittenThisRun(row) ==
    /\ <<row.product_id, row.pcs>> \in upserted
    /\ \E i \in DOMAIN log : log[i] = "saved" /\ allCards[i].NmID = row.nm_id

\* C13, as stated: every run that got past tariff resolution ends with a
\* store in which every row was written by a card of this run and no row of
\* an earlier run survives.
C13_EveryRunPastTariffsStartsEmpty ==
    (pc = "done" /\ ret # "err_tariffs") =>
        /\ StaleRow \notin RowsOf(store)
        /\ \A row \in RowsOf(store) : WrittenThisRun(row)

\* C13, amended: every run that gets past tariff resolution and the removal
\* of the previous database file has an empty store from then until its
\* first card is processed, and from then on every stored row was written by
\* a card of this run and no row of an earlier run is left; a run whose
\* removal fails returns an error and leaves the previous store in place.
C13_FreshStoreOncePreviousRemoved ==
    /\ (pc \notin {"tariffs", "removeDB"} /\ ret \notin {"err_tariffs", "err_remove"}) =>
          /\ StaleRow \notin RowsOf(store)
          /\ \A row \in RowsOf(store) : WrittenThisRun(row)
          /\ upserted = {} => store = <<>>
          /\ log = <<>> => store = <<>>
    /\ ret = "err_remove" =>
          /\ pc = "done" /\ store \in OldStores
          /\ log = <<>> /\ upserted = {} /\ allCards = <<>>

\* C13 witness: a finished run whose store holds rows, all of them written by
\* its own cards.
C13_RunLeftOnlyItsOwnRows ==
    /\ pc = "done" /\ ret = "ok"
    /\ Len(store) = 2
    /\ \A row \in RowsOf(store) : WrittenThisRun(row)

\* The stages of Process in program order.
StageOf(p) ==
    CASE p = "tariffs" -> 1
      [] p = "removeDB" -> 2
      [] p = "createTable" -> 3
      [] p = "fetch" -> 4
      [] p = "fetchReturn" -> 5
      [] p = "prices" -> 6
      [] p = "commission" -> 7
      [] p = "loop" -> 8
      [] OTHER -> 9

\* C14: the tariff, price and commission lookups are each made once, in
\* their own stage, which is never entered again; the catalog walk has
\* returned before the price lookup; the loop is entered only from the
\* commission lookup and nothing is scraped, priced or upserted before it;
\* during the loop the coefficients, the commission rate, the price list and
\* the catalog do not change, and every priced card's tariff and commission
\* fraction are computed from them.
C14_LookupsOnceBeforeFirstCard ==
    /\ [](/\ (log # <<>> \/ scrapes # <<>> \/ used # {} \/ upserted # {}
                \/ last # NoLast \/ productDataCache # EmptyMap)
             => (pc \in {"loop", "done"} /\ idx >= 1)
          /\ pc \in {"tariffs", "removeDB", "createTable", "fetch", "fetchReturn"}
             => (prices = <<>> /\ commissionRate = 0)
          /\ pc \in {"tariffs", "removeDB", "createTable"} => allCards = <<>>
          /\ last.kind \in {"saved", "skip_price"} =>
                LET d == allCards[last.i].Dimensions
                IN  /\ last.tariff =
                          CalculateTariff(CalculateVolumeLiters(d.Width, d.Height,
                                                                d.Length), base, liter)
                    /\ last.comNum = RDiv(RInt(commissionRate + 1), RInt(100)))
    /\ [][/\ StageOf(pc') >= StageOf(pc)
          /\ StageOf(pc') = StageOf(pc) => pc \in {"fetch", "loop"}
          /\ (StageOf(pc') > StageOf(pc) /\ pc' # "done") =>
                StageOf(pc') = StageOf(pc) + 1
          /\ (pc' = "done" /\ pc \in {"fetch", "fetchReturn", "prices", "commission"})
                => FALSE
          /\ (base' # base \/ liter' # liter) => pc = "tariffs"
          /\ allCards' # allCards => pc = "fetch"
          /\ prices' # prices => pc = "prices"
          /\ commissionRate' # commissionRate => pc = "commission"
          /\ pc = "loop" =>
                UNCHANGED <<base, liter, commissionRate, prices, allCards>>]_vars

\* C14 witness: two cards were priced and saved in one run, after a walk of
\* two pages' worth of cards, a price list and a commission rate were loaded.
C14_TwoCardsPricedAfterLookups ==
    /\ pc = "loop" /\ idx = 3
    /\ log = <<"saved", "saved">>
    /\ Len(allCards) = 2
    /\ prices # <<>> /\ commissionRate # 0
    /\ last.comNum = RDiv(RInt(commissionRate + 1), RInt(100))

\* C15, as stated: when the commission lookup failed or held no entry for
\* the category (commissionRate is left at its zero default), the run goes on
\* and every card is priced with a commission rate of zero; when the price
\* lookup failed (the price list is empty), the run goes on and every stored
\* row carries zero list, discounted and loyalty prices.
C15_FailedLookupsLeaveZeroDefaults ==
    /\ (commissionRate = 0 /\ last.kind \in {"saved", "skip_price"}) =>
          /\ ret # "panic"
          /\ last.comNum = RInt(0)
          /\ last.calc = CalcPrice(cfg.DesiredMargin, cfg.TaxRate, RInt(0),
                                   RInt(last.fixedCosts))
          /\ last.commission = 0
    /\ (prices = <<>> /\ pc \in {"loop", "done"}) =>
          \A row \in RowsOf(store) :
             /\ row.price = RInt(0)
             /\ row.discounted_price = RInt(0)
             /\ row.club_discounted_price = RInt(0)

\* C16, as stated: the commission rate a stored row was priced with is the
\* marketplace commission percentage that the lookup returned for the
\* category, as a fraction (percentage / 100), and the stored commission
\* amount is the solved price times that rate (for the runs whose lookup
\* found the category, which leave a non-zero commissionRate).
C16_RateIsLookedUpPercentage ==
    (last.kind = "saved" /\ commissionRate # 0) =>
        \E answer \in CommissionAnswers :
           /\ ~answer.err
           /\ \E k \in DOMAIN answer.Report :
                 /\ answer.Report[k].SubjectID = SubjectOfInterest
                 /\ \A j \in DOMAIN answer.Report :
                       (j > k) => answer.Report[j].SubjectID # SubjectOfInterest
                 /\ commissionRate = Trunc(answer.Report[k].KgvpMarketplace)
                 /\ last.comNum = RDiv(answer.Report[k].KgvpMarketplace, RInt(100))
                 /\ last.commission = Trunc(RMul(last.calc.price, last.comNum))

\* C17: the cache holds only ids whose scrape succeeded, with the data of
\* that scrape; an entry, once written, is never modified or removed; a card
\* whose id is in the cache is costed from the stored data and no call is
\* made for it.
C17_CacheEntriesNeverChange ==
    /\ [](/\ \A id \in DOMAIN productDataCache :
                \E k \in DOMAIN scrapes :
                   /\ scrapes[k].productID = id
                   /\ ~scrapes[k].err
                   /\ scrapes[k].productData = productDataCache[id]
          /\ last.kind \in {"skip_convert", "skip_price", "saved"} =>
                /\ CacheHit(productDataCache, last.productID)
                /\ last.productData = productDataCache[last.productID])
    /\ [][/\ \A id \in DOMAIN productDataCache :
                /\ id \in DOMAIN productDataCache'
                /\ productDataCache'[id] = productDataCache[id]
          /\ (log' # log /\ last'.kind \in DecodedKinds
                /\ CacheHit(productDataCache, last'.productID)) =>
                /\ scrapes' = scrapes
                /\ ~last'.fresh
                /\ last'.productData = productDataCache[last'.productID]
                /\ productDataCache' = productDataCache]_vars

\* C17 witness: two scrapes for two ids succeeded, and after the second one
\* the cache still holds the first id with the data of its scrape.
C17_TwoEntriesKept ==
    /\ Cardinality(DOMAIN productDataCache) = 2
    /\ Len(scrapes) = 2 /\ ~scrapes[1].err /\ ~scrapes[2].err
    /\ scrapes[1].productID # scrapes[2].productID
    /\ productDataCache[scrapes[1].productID] = scrapes[1].productData

\* C18: the first page request carries no cursor position; every later
\* request carries the updatedAt and the nmID of the cursor of the response
\* just before it, which held cards and had neither field empty or zero; so
\* no older cursor is sent again and no request follows a failed or empty
\* response or a response whose cursor was empty or zero.
C18_RequestCarriesPrecedingCursor ==
    [][nreq' = nreq + 1 =>
          /\ request'.limit = 100
          /\ IF nreq = 0
             THEN request'.updatedAt = <<>> /\ request'.nmID = <<>>
             ELSE /\ ~response.err
                  /\ response.Cards # <<>>
                  /\ response.Cursor.UpdatedAt # ""
                  /\ response.Cursor.NmID # 0
                  /\ request'.updatedAt = <<response.Cursor.UpdatedAt>>
                  /\ request'.nmID = <<response.Cursor.NmID>>]_vars

\* C18 witness: a third request was sent, carrying the second cursor of the
\* upstream after two pages of one card each.
C18_ThirdRequestCarriesSecondCursor ==
    /\ nreq = 3
    /\ Len(allCards) = 2
    /\ request.updatedAt = <<"t2">> /\ request.nmID = <<8>>

\* The entries of the price list that carry a card's vendor code.
EntriesFor(vendorCode) == { i \in DOMAIN prices : prices[i].VendorCode = vendorCode }

\* C19: the row a card stores carries the prices of the first size of the
\* first price-list entry, in list order, with the card's vendor code; when
\* that entry has no sizes the three prices are zero whatever later entries
\* of the same vendor code hold, and when no entry matches they are zero.
C19_FirstMatchingEntryOnly ==
    last.kind = "saved" =>
        LET matching == EntriesFor(allCards[last.i].VendorCode)
            first == CHOOSE i \in matching : \A j \in matching : i <= j
            expected == IF matching = {} THEN Size(0, 0, 0)
                        ELSE IF prices[first].Sizes = <<>> THEN Size(0, 0, 0)
                        ELSE Head(prices[first].Sizes)
        IN  /\ \E row \in RowsOf(store) : KeyOf(row) = <<last.productID, last.pcs>>
            /\ \A row \in RowsOf(store) :
                  KeyOf(row) = <<last.productID, last.pcs>> =>
                     /\ row.price = expected.Price
                     /\ row.discounted_price = expected.DiscountedPrice
                     /\ row.club_discounted_price = expected.ClubDiscountedPrice

\* C19 witness: a card was saved with zero prices although the price list
\* holds a second entry of its vendor code with sizes, after a first one
\* without.
C19_LaterDuplicateIgnored ==
    /\ last.kind = "saved"
    /\ Cardinality(EntriesFor(allCards[last.i].VendorCode)) = 2
    /\ \E i \in EntriesFor(allCards[last.i].VendorCode) : prices[i].Sizes # <<>>
    /\ \E row \in RowsOf(store) :
          /\ KeyOf(row) = <<last.productID, last.pcs>>
          /\ row.price = RInt(0)
          /\ row.discounted_price = RInt(0)
          /\ row.club_discounted_price = RInt(0)

\* C20: a card whose vendor code does not match the pattern is skipped and
\* the loop goes on, whatever the number of SKUs collected under its catalog
\* id (none, one, several); the data-integrity abort is raised only by a
\* card whose vendor code matches the pattern.
C20_PatternCheckedBeforeSKUs ==
    /\ \A i \in DOMAIN log :
          /\ ~MatchString(cfg.VendorCodePattern, allCards[i].VendorCode)
                => (log[i] = "skip_pattern" /\ (i < Len(log) \/ ret # "panic"))
          /\ log[i] = "panic_sku" =>
                /\ MatchString(cfg.VendorCodePattern, allCards[i].VendorCode)
                /\ Len(extractSKUs(allCards)[allCards[i].NmID]) # 1
                /\ i = Len(log) /\ ret = "panic"
    /\ ret = "panic" =>
          /\ log # <<>> /\ log[Len(log)] = "panic_sku"
          /\ last.i = Len(log)
          /\ MatchString(cfg.VendorCodePattern, allCards[last.i].VendorCode)

\* C20 witness: the first card does not match the pattern and has no SKU at
\* all; it was skipped and the run went on to a normal return.
C20_MismatchWithBadSKUCountSkipped ==
    /\ Len(log) >= 1
    /\ log[1] = "skip_pattern"
    /\ Len(extractSKUs(allCards)[allCards[1].NmID]) = 0
    /\ pc = "done" /\ ret = "ok"

=============================================================================
